---- MODULE Spec2Model ----
(***************************************************************************)
(* Model of src/main.py: one run of main(), the nickel bulletin.           *)
(*                                                                         *)
(* Numbers.  Python floats are held as exact scaled integers:              *)
(*   - a percent change is held in hundredths of a percent (2.3 -> 230);   *)
(*   - a nickel price and a stock close are held in cents;                 *)
(*   - a close of the trend proxy is a whole number, and a moving average  *)
(*     is held in units of 1/LongWindow, so that the means over 20 and 60  *)
(*     closes are exact integers.                                          *)
(* The change of a stock is the one quantity whose printed digits depend   *)
(* on float rounding; it is computed in emulated binary floating point.    *)
(* The message is the sequence of its lines (the text split on "\n").      *)
(*                                                                         *)
(* Text.  String literals are ASCII: an emoji is written as its shortcode  *)
(* (":rocket:"), Chinese words that the code tests for are written in      *)
(* pinyin ("duotou" for the word the code looks for in the status), names  *)
(* and tags of the basket by initials of the same length, and the other    *)
(* fixed texts in English.  A backquote is written as an apostrophe.       *)
(***************************************************************************)
EXTENDS Integers, Sequences, FiniteSets, TLC

VARIABLES pc, clock, nickel_data, market_trend, is_bullish_price,
          is_bullish_trend, message, table, fetched, sink, posts, log

vars == <<pc, clock, nickel_data, market_trend, is_bullish_price,
          is_bullish_trend, message, table, fetched, sink, posts, log>>

(***************************** bounds **************************************)
\* closes of the trend proxy range over 1..MaxClose
MaxClose == 3
\* calendar days 1..MaxDay; the run starts on day 1
MaxDay == 2
\* the history of the trend proxy holds at most LongWindow + MaxExtra closes
MaxExtra == 1

(************************* program constants *******************************)
LongWindow == 60
MediumWindow == 20
BullishPct == 100
VolumeLot == 1000
SeparatorWidth == 42

(************************* Python values ***********************************)
None == [tag |-> "None"]
Truthy(v) == v.tag # "None"

RECURSIVE Repeat(_, _)
Repeat(s, n) == IF n <= 0 THEN "" ELSE s \o Repeat(s, n - 1)

\* format spec :<w and :>w of a string
PadRight(s, w) == s \o Repeat(" ", w - Len(s))
PadLeft(s, w) == Repeat(" ", w - Len(s)) \o s

Abs(x) == IF x < 0 THEN -x ELSE x

ZeroPad(n, w) == Repeat("0", w - Len(ToString(n))) \o ToString(n)

\* format spec "," of a non-negative integer
RECURSIVE Thousands(_)
Thousands(n) == IF n < 1000 THEN ToString(n)
                ELSE Thousands(n \div 1000) \o "," \o ZeroPad(n % 1000, 3)

\* q rounded to the nearest integer, ties to even, for num >= 0 and den > 0
RoundHalfEven(num, den) ==
    LET f == num \div den
        r == 2 * (num % den)
    IN  IF r < den THEN f
        ELSE IF r > den THEN f + 1
        ELSE IF f % 2 = 0 THEN f ELSE f + 1

\* format spec .2f of the value h / 100 (h in hundredths, already rounded)
Fixed2(h, negative) ==
    (IF negative THEN "-" ELSE "") \o ToString(Abs(h) \div 100) \o "."
        \o ZeroPad(Abs(h) % 100, 2)

\* str() of the float h / 100: the shortest repr, with at least one decimal
FloatStr(h) ==
    LET a == Abs(h)
        frac == IF a % 100 = 0 THEN "0"
                ELSE IF a % 10 = 0 THEN ToString((a % 100) \div 10)
                ELSE ZeroPad(a % 100, 2)
    IN  (IF h < 0 THEN "-" ELSE "") \o ToString(a \div 100) \o "." \o frac

\* datetime.now().strftime('%Y-%m-%d') on day d of the month
Strftime(d) == "2024-01-" \o ZeroPad(d, 2)

\* w in s, for two str
Contains(s, w) ==
    \E i \in 1..(Len(s) - Len(w) + 1) : SubSeq(s, i, i + Len(w) - 1) = w

\* s.replace(old, "") for a non-empty old
RECURSIVE Remove(_, _)
Remove(s, old) ==
    IF Len(s) < Len(old) THEN s
    ELSE IF SubSeq(s, 1, Len(old)) = old
         THEN Remove(SubSeq(s, Len(old) + 1, Len(s)), old)
         ELSE SubSeq(s, 1, 1) \o Remove(SubSeq(s, 2, Len(s)), old)

RECURSIVE Sum(_)
Sum(q) == IF q = <<>> THEN 0 ELSE Head(q) + Sum(Tail(q))

\* Series.tail(n)
TailN(q, n) == IF Len(q) <= n THEN q ELSE SubSeq(q, Len(q) - n + 1, Len(q))

\* Series.tail(n).mean(), in units of 1/LongWindow (n divides LongWindow)
MeanOfTail(q, n) == Sum(TailN(q, n)) * (LongWindow \div n)

(******************* configuration, src/main.py 9-22 **********************)
\* TREND_PROXY_TICKER
TREND_PROXY_TICKER == "DBB"

\* STOCK_LIST: names and tags are written by initials of the same length
\*   QX = 千興, ZY = 彰源, HX = 華新, YQ = 允強, DCG = 大成鋼
\*   XXBG = 小型飆股, KCLD = 庫存利得, NKZY = 鎳礦資源, ZZLT = 製造龍頭,
\*   MLTL = 美鋁通路
STOCK_LIST ==
    << [id |-> "2025.TW", name |-> "QX",  tag |-> "XXBG"],
       [id |-> "2030.TW", name |-> "ZY",  tag |-> "KCLD"],
       [id |-> "1605.TW", name |-> "HX",  tag |-> "NKZY"],
       [id |-> "2034.TW", name |-> "YQ",  tag |-> "ZZLT"],
       [id |-> "2027.TW", name |-> "DCG", tag |-> "MLTL"] >>

(********************* get_nickel_price, 37-67 *****************************)
\* What the page can give: the request or the parse raises ("error"), no
\* price span is found ("no_span"), or a price is read ("ok").
NickelOutcomes == {"error", "no_span", "ok"}
\* prices read from the page, in cents
NickelPrices == {1950000}
\* percent changes read from the page, in hundredths of a percent
NickelChanges == {-150, 0, 100, 101, 230}

\* the value get_nickel_price returns
NickelResult(outcome, price, pct_found, pct, today) ==
    IF outcome # "ok" THEN None
    ELSE [tag |-> "dict",
          price |-> price,
          change_pct |-> IF pct_found THEN pct ELSE 0,
          date |-> Strftime(today)]

(********************* get_market_trend, 69-117 ****************************)
\* the value returned for a history shorter than LongWindow: a tuple
InsufficientTuple == [tag |-> "tuple", items |-> <<"ziliao buzu", 0, 0>>]

\* TrendLogic with a tie of the two means taken as "below" in the second
\* branch and as "above" in the fourth
TrendLogicLenient(price, ma20, ma60) ==
    IF price > ma20 /\ ma20 > ma60
    THEN [emoji |-> ":rocket:", status |-> "duotou pailie (qiangshi)"]
    ELSE IF price > ma20 /\ ma20 <= ma60
    THEN [emoji |-> ":chart_up:", status |-> "zhanshang yuexian (fantan)"]
    ELSE IF price < ma20 /\ ma20 < ma60
    THEN [emoji |-> ":bear:", status |-> "kongtou pailie (ruoshi)"]
    ELSE IF price < ma20 /\ ma20 >= ma60
    THEN [emoji |-> ":chart_down:", status |-> "diepo yuexian (zhengli)"]
    ELSE [emoji |-> ":scales:", status |-> "panzheng zhong"]

\* lines 89-107: emoji and status from the latest close and the two means
\*   duotou pailie (qiangshi)    = 多頭排列 (強勢)
\*   zhanshang yuexian (fantan)  = 站上月線 (反彈)
\*   kongtou pailie (ruoshi)     = 空頭排列 (弱勢)
\*   diepo yuexian (zhengli)     = 跌破月線 (整理)
\*   panzheng zhong              = 盤整中
TrendLogic(price, ma20, ma60) ==
    IF price > ma20 /\ ma20 > ma60
    THEN [emoji |-> ":rocket:", status |-> "duotou pailie (qiangshi)"]
    ELSE IF price > ma20 /\ ma20 < ma60
    THEN [emoji |-> ":chart_up:", status |-> "zhanshang yuexian (fantan)"]
    ELSE IF price < ma20 /\ ma20 < ma60
    THEN [emoji |-> ":bear:", status |-> "kongtou pailie (ruoshi)"]
    ELSE IF price < ma20 /\ ma20 > ma60
    THEN [emoji |-> ":chart_down:", status |-> "diepo yuexian (zhengli)"]
    ELSE [emoji |-> ":scales:", status |-> "panzheng zhong"]

\* lines 79-114 on a history that was retrieved
TrendOfHistory(hist) ==
    IF Len(hist) < LongWindow THEN InsufficientTuple
    ELSE LET price == hist[Len(hist)] * LongWindow
             ma20 == MeanOfTail(hist, MediumWindow)
             ma60 == MeanOfTail(hist, LongWindow)
             t == TrendLogic(price, ma20, ma60)
         IN  [tag |-> "dict",
              status |-> t.emoji \o " " \o t.status,
              ma20 |-> ma20,
              ma60 |-> ma60,
              price |-> price]

\* Histories the data source can give: n closes, flat at 'old' except for the
\* last two sessions, after 'ancient' closes older than the long window.
HistOf(n, ancient, old, prev, last) ==
    [i \in 1..n |-> IF i = n THEN last
                    ELSE IF i = n - 1 THEN prev
                    ELSE IF i > n - LongWindow THEN old
                    ELSE ancient]
HistLengths == {0, LongWindow - 1} \cup (LongWindow..(LongWindow + MaxExtra))
Closes == 1..MaxClose
BaseClose == (MaxClose + 1) \div 2

(******************* get_tw_stocks_status, 119-155 *************************)
\* What Ticker(symbol).history(period="5d") can give for one stock: it
\* raises ("error"), or it returns a frame of 0, 1 or 2 rows.
StockOutcomes == {"error", "rows0", "rows1", "rows2"}

\* The two latest sessions of each stock (Close in cents, Volume in shares);
\* the frame of the last stock has no Volume column.
StockSessions ==
    << << [Close |-> 3000,  Volume |-> 1234567], [Close |-> 3150,  Volume |-> 2345678] >>,
       << [Close |-> 2040,  Volume |-> 500000],  [Close |-> 2000,  Volume |-> 999] >>,
       << [Close |-> 2500,  Volume |-> 80000],   [Close |-> 2500,  Volume |-> 81500] >>,
       << [Close |-> 30000, Volume |-> 4000],    [Close |-> 29999, Volume |-> 12000] >>,
       << [Close |-> 4570,  Volume |-> 0],       [Close |-> 4585,  Volume |-> 0] >> >>

FrameOf(i, outcome) ==
    [rows |-> IF outcome = "rows2" THEN StockSessions[i]
              ELSE IF outcome = "rows1" THEN TailN(StockSessions[i], 1)
              ELSE <<>>,
     has_volume |-> i # Len(STOCK_LIST)]

\* line 122: DH = 代號, MC = 名稱, XJ = 現價, ZD% = 漲跌%, ZS = 張數, TX = 特性
TableHeader ==
    PadRight("DH", 5) \o " " \o PadRight("MC", 4) \o " " \o PadLeft("XJ", 6)
        \o " " \o PadLeft("ZD%", 7) \o " " \o PadLeft("ZS", 5) \o "  " \o "TX"
\* line 124
TableSeparator == Repeat("-", SeparatorWidth)

(************** Python float arithmetic, lines 143-146 *********************)
(* The change of a stock is computed in binary floating point, so its      *)
(* printed digits can differ from those of the exact quotient.  A natural  *)
(* number of any size is held as the sequence of its limbs, lowest first,  *)
(* with no leading zero limb; a positive float is [m, e], standing for     *)
(* m * 2^e with m of MantBits binary digits, and zero is [<<>>, 0].        *)
MantBits == 53
LimbBits == 15
LimbBase == 2^LimbBits

\* Naturals beyond the machine word, as sequences of limbs below LimbBase,
\* least significant first, <<>> being zero.
RECURSIVE BFromInt(_)
BFromInt(n) ==
    IF n = 0 THEN <<>> ELSE <<n % LimbBase>> \o BFromInt(n \div LimbBase)
RECURSIVE BToInt(_)
BToInt(a) == IF a = <<>> THEN 0 ELSE a[1] + LimbBase * BToInt(Tail(a))
RECURSIVE BNorm(_)
BNorm(a) == IF a = <<>> THEN a
            ELSE IF a[Len(a)] = 0 THEN BNorm(SubSeq(a, 1, Len(a) - 1))
            ELSE a
RECURSIVE BCmpFrom(_, _, _)
BCmpFrom(a, b, i) == IF i = 0 THEN 0
                     ELSE IF a[i] # b[i] THEN (IF a[i] < b[i] THEN -1 ELSE 1)
                     ELSE BCmpFrom(a, b, i - 1)
\* -1, 0 or 1 as a < b, a = b or a > b
BCmp(a, b) == IF Len(a) # Len(b) THEN (IF Len(a) < Len(b) THEN -1 ELSE 1)
              ELSE BCmpFrom(a, b, Len(a))
BLimb(a, i) == IF i <= Len(a) THEN a[i] ELSE 0
RECURSIVE BMulAddFrom(_, _, _, _)
BMulAddFrom(a, k, i, carry) ==
    IF i > Len(a) THEN BFromInt(carry)
    ELSE LET s == a[i] * k + carry
         IN  <<s % LimbBase>> \o BMulAddFrom(a, k, i + 1, s \div LimbBase)
\* a * k + c, for k and c below LimbBase
BMulAdd(a, k, c) == BMulAddFrom(a, k, 1, c)
RECURSIVE BSubFrom(_, _, _, _)
BSubFrom(a, b, i, borrow) ==
    IF i > Len(a) THEN <<>>
    ELSE LET s == a[i] - BLimb(b, i) - borrow
         IN  <<s % LimbBase>> \o BSubFrom(a, b, i + 1, IF s < 0 THEN 1 ELSE 0)
\* a - b, for a >= b
BSub(a, b) == BNorm(BSubFrom(a, b, 1, 0))
\* a * 2^k
BShl(a, k) ==
    IF a = <<>> THEN a
    ELSE [i \in 1..(k \div LimbBits) |-> 0] \o BMulAdd(a, 2^(k % LimbBits), 0)
\* the number of binary digits of a
BBitLen(a) ==
    IF a = <<>> THEN 0
    ELSE LimbBits * (Len(a) - 1)
         + (CHOOSE k \in 1..LimbBits : 2^(k - 1) <= a[Len(a)] /\ a[Len(a)] < 2^k)
\* binary digit i of a, the least significant being digit 1
BBitAt(a, i) ==
    (a[((i - 1) \div LimbBits) + 1] \div 2^((i - 1) % LimbBits)) % 2
\* one step of binary long division of a by b: digit i of a is brought down
BDivStep(a, b, i, st) ==
    LET r2 == BMulAdd(st.r, 2, BBitAt(a, i))
        ge == BCmp(r2, b) >= 0
    IN  [q |-> BMulAdd(st.q, 2, IF ge THEN 1 ELSE 0),
         r |-> IF ge THEN BSub(r2, b) ELSE r2]
RECURSIVE BDivFrom(_, _, _, _, _)
\* the steps for digits hi down to lo of a, from the state st
BDivFrom(a, b, hi, lo, st) ==
    IF hi < lo THEN st
    ELSE IF hi = lo THEN BDivStep(a, b, hi, st)
    ELSE LET mid == (hi + lo) \div 2
             upper == BDivFrom(a, b, hi, mid + 1, st)
         IN  IF Len(upper.q) + Len(upper.r) >= 0
             THEN BDivFrom(a, b, mid, lo, upper)
             ELSE upper
\* quotient and remainder of a by b, for b > 0
BDivMod(a, b) == BDivFrom(a, b, BBitLen(a), 1, [q |-> <<>>, r |-> <<>>])
\* q + r / den rounded to the nearest integer, ties to even
BRound(q, r, den) ==
    LET c == BCmp(BMulAdd(r, 2, 0), den)
    IN  IF c > 0 \/ (c = 0 /\ q # <<>> /\ q[1] % 2 = 1) THEN BMulAdd(q, 1, 1)
        ELSE q

FZero == [m |-> <<>>, e |-> 0]
\* the float nearest to (num / den) * 2^s, ties to even
FRound(num, den, s) ==
    IF num = <<>> THEN FZero
    ELSE LET e0 == BBitLen(num) - BBitLen(den) - MantBits
             n == IF e0 < 0 THEN BShl(num, -e0) ELSE num
             d == IF e0 > 0 THEN BShl(den, e0) ELSE den
             d1 == BDivMod(n, d)
             big == BBitLen(d1.q) > MantBits
             d2 == IF big THEN BShl(d, 1) ELSE d
             qr == IF big THEN BDivMod(n, d2) ELSE d1
             e == IF big THEN e0 + 1 ELSE e0
             m == BRound(qr.q, qr.r, d2)
         IN  IF BBitLen(m) > MantBits
             THEN [m |-> BShl(<<1>>, MantBits - 1), e |-> e + 1 + s]
             ELSE [m |-> m, e |-> e + s]
\* the float of a close of c cents
FOfCents(c) == FRound(BFromInt(c), BFromInt(100), 0)
\* x - y, for floats x >= y >= 0
FSub(x, y) ==
    LET lo == IF x.e < y.e THEN x.e ELSE y.e
    IN  FRound(BSub(BShl(x.m, x.e - lo), BShl(y.m, y.e - lo)), <<1>>, lo)
\* x / y, for y > 0
FDiv(x, y) == FRound(x.m, y.m, x.e - y.e)
\* x * 100
FTimes100(x) == FRound(BMulAdd(x.m, 100, 0), <<1>>, x.e)
\* format spec .2f of the float x >= 0, as a number of hundredths: the exact
\* value of x rounded to two decimals, ties to even
FHundredths(x) ==
    LET n == BMulAdd(x.m, 100, 0)
    IN  IF x.e >= 0 THEN BToInt(BShl(n, x.e))
        ELSE LET den == BShl(<<1>>, -x.e)
                 qr == BDivMod(n, den)
             IN  BToInt(BRound(qr.q, qr.r, den))

\* lines 141-146, for closes above 0: ((price - prev) / prev) * 100 in float
\* arithmetic, printed with .2f
ChangeStr(rows) ==
    IF Len(rows) >= 2
    THEN LET price == rows[Len(rows)].Close
             prev == rows[Len(rows) - 1].Close
             hi == FOfCents(IF price > prev THEN price ELSE prev)
             lo == FOfCents(IF price > prev THEN prev ELSE price)
             change == FTimes100(FDiv(FSub(hi, lo), FOfCents(prev)))
             sign == IF price > prev THEN "+" ELSE ""
         IN  sign \o Fixed2(FHundredths(change), price < prev) \o "%"
    ELSE "0.00%"

\* lines 127-153: the line one stock adds to the table
StockLine(i, outcome) ==
    LET symbol == STOCK_LIST[i].id
        frame == FrameOf(i, outcome)
        n == Len(frame.rows)
    IN  IF outcome = "error" THEN symbol \o " read error"
        ELSE IF n >= 1
        THEN LET price == frame.rows[n].Close
                 volume == IF frame.has_volume
                           THEN frame.rows[n].Volume \div VolumeLot ELSE 0
                 stock_code == Remove(symbol, ".TW")
             IN  PadRight(stock_code, 5) \o " " \o PadRight(STOCK_LIST[i].name, 4)
                     \o " " \o PadLeft(Fixed2(price, FALSE), 6)
                     \o " " \o PadLeft(ChangeStr(frame.rows), 7)
                     \o " " \o PadLeft(ToString(volume), 5)
                     \o "  " \o STOCK_LIST[i].tag
        ELSE symbol \o " no data"

\* the line of every stock under every retrieval outcome, computed once
StockLineTable ==
    [i \in 1..Len(STOCK_LIST) |-> [o \in StockOutcomes |-> StockLine(i, o)]]

\* StockLinesFrom with the loop left at the first stock whose retrieval raises
RECURSIVE StockLinesFromAbort(_, _)
StockLinesFromAbort(i, outcomes) ==
    IF i > Len(STOCK_LIST) THEN <<>>
    ELSE IF outcomes[i] = "error" THEN <<StockLineTable[i][outcomes[i]]>>
    ELSE <<StockLineTable[i][outcomes[i]]>> \o StockLinesFromAbort(i + 1, outcomes)

\* the loop of lines 126-153 from stock i on
RECURSIVE StockLinesFrom(_, _)
StockLinesFrom(i, outcomes) ==
    IF i > Len(STOCK_LIST) THEN <<>>
    ELSE <<StockLineTable[i][outcomes[i]]>> \o StockLinesFrom(i + 1, outcomes)

\* the lines of the text get_tw_stocks_status returns
GetTwStocksStatus(outcomes) ==
    <<TableHeader, TableSeparator>> \o StockLinesFrom(1, outcomes)

(*************************** main, 159-215 *********************************)
\* line 168
IsBullishPrice(nickel) == Truthy(nickel) /\ nickel.change_pct > BullishPct
\* line 169, for a trend that is None or a dict
IsBullishTrend(trend) == Truthy(trend) /\ Contains(trend.status, "duotou")
\* TitleDate taken from the quote when there is one
TitleDateAsOf(nickel, now) == IF Truthy(nickel) THEN nickel.date ELSE Strftime(now)
\* line 173: the date of the title is read from the clock when the title is
\* composed; the quote is not consulted
TitleDate(nickel, now) == Strftime(now)
\* line 171
TitleEmoji(bp, bt) == IF bp /\ bt THEN ":fire:" ELSE ":bar_chart:"
\* line 173
TitleLine(bp, bt, date) ==
    TitleEmoji(bp, bt) \o " **Nickel Strategy War Room** (" \o date \o ")"
\* PctSign with an unchanged price shown as a rise
PctSignNonNegative(change_pct) ==
    IF change_pct >= 0 THEN ":small_red_triangle:" ELSE ":small_red_triangle_down:"
\* line 178
PctSign(change_pct) ==
    IF change_pct > 0 THEN ":small_red_triangle:" ELSE ":small_red_triangle_down:"
ReadFailedLine == "**:nut_and_bolt: LME Nickel**: 'read failed' (check Business Insider)"
\* lines 176-183
QuoteSection(nickel) ==
    IF Truthy(nickel)
    THEN << "**:nut_and_bolt: LME Nickel (Spot)**",
            "> Price: '" \o Thousands(RoundHalfEven(nickel.price, 100)) \o "' USD",
            "> Change: '" \o PctSign(nickel.change_pct) \o " "
                \o FloatStr(nickel.change_pct) \o "%'" >>
    ELSE << ReadFailedLine >>
\* lines 193-200
Strategy(status) ==
    IF Contains(status, "duotou")
    THEN "'follow the trend long, buy the dips' :white_check_mark:"
    ELSE IF Contains(status, "zhanshang yuexian")
    THEN "'rebound, trade short-term' :warning:"
    ELSE IF Contains(status, "kongtou")
    THEN "'bearish, stay on the sidelines' :no_entry:"
    ELSE "'range-bound, buy low sell high' :arrows_counterclockwise:"
TrendHeaderLine == "**:ocean: Commodity trend (DBB ETF)**"
\* lines 186-200
TrendSection(trend) ==
    IF Truthy(trend)
    THEN << TrendHeaderLine,
            "> Status: **" \o trend.status \o "**",
            "> MA: monthly " \o Fixed2(RoundHalfEven(trend.ma20 * 100, LongWindow), FALSE)
                \o " | quarterly "
                \o Fixed2(RoundHalfEven(trend.ma60 * 100, LongWindow), FALSE),
            "> Strategy: " \o Strategy(trend.status) >>
    ELSE << >>
\* MessageHead with the trend section rendered only under a quote
MessageHeadQuoteGated(nickel, trend, bp, bt, date) ==
    <<TitleLine(bp, bt, date), "">> \o QuoteSection(nickel)
        \o (IF Truthy(nickel) THEN TrendSection(trend) ELSE <<>>) \o <<"">>
\* lines 165-201: the message up to the stock section
MessageHead(nickel, trend, bp, bt, date) ==
    <<TitleLine(bp, bt, date), "">> \o QuoteSection(nickel)
        \o TrendSection(trend) \o <<"">>
StocksHeaderLine == "**:factory: Stainless steel stocks**"
\* the fence of the code block: three backquotes
FenceOpen == "'''yaml"
FenceClose == "'''"
\* StockSection left out when no stock has a normal row
StockSectionSkipsEmpty(text) ==
    IF \A i \in 3..Len(text) :
          \/ Contains(text[i], " read error")
          \/ Contains(text[i], " no data")
    THEN <<>>
    ELSE <<StocksHeaderLine, FenceOpen>> \o text \o <<FenceClose>>
\* lines 204-207
StockSection(text) == <<StocksHeaderLine, FenceOpen>> \o text \o <<FenceClose>>
StrongLine ==
    "@here **:rocket: Strong signal: nickel surging + bullish trend! Full attention!**"
WatchLine ==
    "@here **:warning: Caution: nickel rebounding, but the main trend is still bearish (careful with short-term trades)**"
\* Escalate with one line for both tiers
EscalateCollapsed(msg, bp, bt) == IF bp THEN <<StrongLine>> \o msg ELSE msg
\* lines 210-213
Escalate(msg, bp, bt) ==
    IF bp /\ bt THEN <<StrongLine>> \o msg
    ELSE IF bp /\ ~bt THEN <<WatchLine>> \o msg
    ELSE msg

(******************** send_discord_message, 26-35 **************************)
\* DISCORD_WEBHOOK_URL is unset, or the post succeeds, or it raises
SinkOutcomes == {"unset", "ok", "fail"}
SendLog(outcome) ==
    IF outcome = "unset" THEN "webhook url not set"
    ELSE IF outcome = "ok" THEN "discord sent"
    ELSE "discord send failed"
\* the number of requests.post calls of one send_discord_message
PostsOf(outcome) == IF outcome = "unset" THEN 0 ELSE 1

(***************************** the run *************************************)
Init ==
    /\ pc = "start"
    /\ clock = 1
    /\ nickel_data = None
    /\ market_trend = None
    /\ is_bullish_price = FALSE
    /\ is_bullish_trend = FALSE
    /\ message = <<>>
    /\ table = <<>>
    /\ fetched = <<>>
    /\ sink = <<>>
    /\ posts = 0
    /\ log = <<>>

\* fetched is the record of the retrievals made so far, each with the source
\* asked and what came back; sink is the sequence of contents passed to
\* send_discord_message, posts the number of requests.post calls, log the
\* lines printed.

\* lines 160-162: main starts and calls get_nickel_price, which stamps the
\* quote with the day it reads from the clock
CallGetNickelPrice ==
    /\ pc = "start"
    /\ \E outcome \in NickelOutcomes, price \in NickelPrices,
          pct_found \in BOOLEAN, pct \in NickelChanges :
          /\ nickel_data' = NickelResult(outcome, price, pct_found, pct, clock)
          /\ log' = log \o <<"start">>
                        \o (IF outcome = "error" THEN <<"nickel fetch failed">> ELSE <<>>)
          /\ fetched' = Append(fetched, [src |-> "nickel", result |-> outcome])
    /\ pc' = "trend"
    /\ UNCHANGED <<clock, market_trend, is_bullish_price, is_bullish_trend,
                   message, table, sink, posts>>

\* line 163: get_market_trend; the retrieval raises, or a history comes back.
\* Midnight may pass while the history is retrieved.
CallGetMarketTrend ==
    /\ pc = "trend"
    /\ \E raises \in BOOLEAN, n \in HistLengths, ancient \in Closes,
          prev \in Closes, last \in Closes :
          /\ market_trend' =
                IF raises THEN None
                ELSE TrendOfHistory(HistOf(n, ancient, BaseClose, prev, last))
          /\ log' = IF raises THEN Append(log, "trend failed") ELSE log
          /\ fetched' = Append(fetched,
                [src |-> TREND_PROXY_TICKER,
                 result |-> IF raises THEN "error" ELSE "returned"])
    /\ \E today \in clock..MaxDay : clock' = today
    /\ pc' = "fuse"
    /\ UNCHANGED <<nickel_data, is_bullish_price, is_bullish_trend,
                   message, table, sink, posts>>

\* lines 165-201: the two flags, the title and the quote and trend sections.
\* Line 169 subscripts market_trend with a str: on the tuple of the
\* insufficient-data return this raises TypeError, which nothing catches.
ComposeHead ==
    /\ pc = "fuse"
    /\ is_bullish_price' = IsBullishPrice(nickel_data)
    /\ IF market_trend.tag = "tuple"
       THEN /\ pc' = "crashed"
            /\ log' = Append(log, "TypeError")
            /\ UNCHANGED <<is_bullish_trend, message>>
       ELSE /\ is_bullish_trend' = IsBullishTrend(market_trend)
            /\ message' = MessageHead(nickel_data, market_trend,
                                      IsBullishPrice(nickel_data),
                                      IsBullishTrend(market_trend),
                                      TitleDate(nickel_data, clock))
            /\ pc' = "table"
            /\ UNCHANGED log
    /\ UNCHANGED <<clock, nickel_data, market_trend, table, fetched, sink, posts>>

\* lines 203-207: the stock section, with the text of get_tw_stocks_status
ComposeTable ==
    /\ pc = "table"
    /\ \E outcomes \in [1..Len(STOCK_LIST) -> StockOutcomes] :
          /\ table' = GetTwStocksStatus(outcomes)
          /\ message' = message \o StockSection(GetTwStocksStatus(outcomes))
          /\ fetched' = fetched \o [i \in 1..Len(STOCK_LIST) |->
                            [src |-> STOCK_LIST[i].id, result |-> outcomes[i]]]
    /\ pc' = "signal"
    /\ UNCHANGED <<clock, nickel_data, market_trend, is_bullish_price,
                   is_bullish_trend, sink, posts, log>>

\* lines 209-215: the escalation line, then send_discord_message(message)
SignalAndSend ==
    /\ pc = "signal"
    /\ message' = Escalate(message, is_bullish_price, is_bullish_trend)
    /\ sink' = Append(sink, Escalate(message, is_bullish_price, is_bullish_trend))
    /\ \E outcome \in SinkOutcomes :
          /\ posts' = posts + PostsOf(outcome)
          /\ log' = Append(log, SendLog(outcome))
    /\ pc' = "done"
    /\ UNCHANGED <<clock, nickel_data, market_trend, is_bullish_price,
                   is_bullish_trend, table, fetched>>

Next ==
    \/ CallGetNickelPrice
    \/ CallGetMarketTrend
    \/ ComposeHead
    \/ ComposeTable
    \/ SignalAndSend

Spec == Init /\ [][Next]_vars

(***************************************************************************)
(*                              The claims                                 *)
(***************************************************************************)
Ended == pc \in {"done", "crashed"}
HasLine(m, l) == \E i \in DOMAIN m : m[i] = l
StartsWith(s, p) == Len(s) >= Len(p) /\ SubSeq(s, 1, Len(p)) = p
EndsWith(s, p) == Len(s) >= Len(p) /\ SubSeq(s, Len(s) - Len(p) + 1, Len(s)) = p
IsMention(l) == StartsWith(l, "@here")
\* what came back from the retrieval of source src
ResultOf(src) == LET i == CHOOSE i \in DOMAIN fetched : fetched[i].src = src
                 IN  fetched[i].result
StockIds == {STOCK_LIST[i].id : i \in 1..Len(STOCK_LIST)}
AllSources == <<"nickel", TREND_PROXY_TICKER>>
                  \o [i \in 1..Len(STOCK_LIST) |-> STOCK_LIST[i].id]
\* the trend label of a status text
LabelOf(status) ==
    IF status = ":rocket: duotou pailie (qiangshi)" THEN "BULLISH_ALIGNED"
    ELSE IF status = ":chart_up: zhanshang yuexian (fantan)" THEN "REBOUND"
    ELSE IF status = ":bear: kongtou pailie (ruoshi)" THEN "BEARISH_ALIGNED"
    ELSE IF status = ":chart_down: diepo yuexian (zhengli)" THEN "PULLBACK"
    ELSE IF status = ":scales: panzheng zhong" THEN "FLAT"
    ELSE "?"
\* the alert tier the sent message shows
TierShown(m) == IF m[1] = StrongLine THEN "STRONG"
                ELSE IF m[1] = WatchLine THEN "WATCH"
                ELSE "NONE"

(* C1: no failure is fatal: whatever the retrievals give, the run ends      *)
(* without an uncaught exception and with a bulletin handed to              *)
(* send_discord_message.  Refuted: a trend history shorter than LongWindow  *)
(* makes get_market_trend return a tuple, and line 169 raises TypeError.    *)
C1_NoFailureIsFatal ==
    /\ pc # "crashed"
    /\ pc = "done" => Len(sink) = 1

(* C2: fusing the quote and the trend never raises, whatever the two       *)
(* retrievals returned; is_bullish_price holds exactly when the quote is    *)
(* present with a change above 1.0, is_bullish_trend exactly when a trend   *)
(* result is present with label BULLISH_ALIGNED, and the sent message shows *)
(* tier STRONG when both hold, WATCH when only the price flag holds, NONE   *)
(* otherwise; an absent quote or trend gives a false flag.  Refuted: a      *)
(* trend result that is present with the insufficient-data label is the     *)
(* tuple of line 80, and line 169 raises TypeError on it instead of giving  *)
(* a false flag (the defect of C1).                                         *)
C2_SignalFusion ==
    /\ pc \in {"table", "signal", "done", "crashed"} =>
          /\ pc # "crashed"
          /\ is_bullish_price
                = (nickel_data # None /\ nickel_data.change_pct > BullishPct)
          /\ is_bullish_trend
                = (market_trend # None
                     /\ LabelOf(market_trend.status) = "BULLISH_ALIGNED")
    /\ pc = "done" =>
          TierShown(sink[1]) =
              IF is_bullish_price /\ is_bullish_trend THEN "STRONG"
              ELSE IF is_bullish_price THEN "WATCH"
              ELSE "NONE"

(* C3 as stated: a tie of the two averages is REBOUND above the medium      *)
(* average and PULLBACK below it.                                           *)
C3_ClassificationAsStated ==
    market_trend.tag = "dict" =>
        LET p == market_trend.price
            m == market_trend.ma20
            l == market_trend.ma60
        IN  LabelOf(market_trend.status) =
                IF p > m /\ m > l THEN "BULLISH_ALIGNED"
                ELSE IF p > m /\ m <= l THEN "REBOUND"
                ELSE IF p < m /\ m < l THEN "BEARISH_ALIGNED"
                ELSE IF p < m /\ m >= l THEN "PULLBACK"
                ELSE "FLAT"
(* C3 amended: with price = latest close, MA20, MA60: price > MA20 > MA60   *)
(* is BULLISH_ALIGNED; price > MA20 and MA20 < MA60 is REBOUND; price <     *)
(* MA20 < MA60 is BEARISH_ALIGNED; price < MA20 and MA20 > MA60 is          *)
(* PULLBACK; every other case, price equal to MA20 or MA20 equal to MA60,   *)
(* is FLAT.                                                                 *)
C3_Classification ==
    market_trend.tag = "dict" =>
        LET p == market_trend.price
            m == market_trend.ma20
            l == market_trend.ma60
            label == LabelOf(market_trend.status)
        IN  /\ (p > m /\ m > l) => label = "BULLISH_ALIGNED"
            /\ (p > m /\ m < l) => label = "REBOUND"
            /\ (p < m /\ m < l) => label = "BEARISH_ALIGNED"
            /\ (p < m /\ m > l) => label = "PULLBACK"
            /\ (p = m \/ m = l) => label = "FLAT"
\* the latest close is above MA20, MA20 equals MA60, and the label is FLAT
C3_Witness ==
    /\ market_trend.tag = "dict"
    /\ market_trend.price > market_trend.ma20
    /\ market_trend.ma20 = market_trend.ma60
    /\ LabelOf(market_trend.status) = "FLAT"

(* C4: the sent message begins with an @here line, before the title,        *)
(* exactly when the tier is not NONE, and holds no @here line otherwise or  *)
(* elsewhere; the STRONG line and the WATCH line differ, the STRONG line is *)
(* sent exactly when both flags hold and the WATCH line exactly when the    *)
(* price flag holds and the trend flag does not.                            *)
C4_Escalation ==
    pc = "done" =>
        LET m == sink[1]
            tiered == is_bullish_price
            title == TitleLine(is_bullish_price, is_bullish_trend, Strftime(clock))
        IN  /\ IsMention(m[1]) <=> tiered
            /\ \A i \in 2..Len(m) : ~IsMention(m[i])
            /\ m[IF tiered THEN 2 ELSE 1] = title
            /\ StrongLine # WatchLine
            /\ HasLine(m, StrongLine) <=> (is_bullish_price /\ is_bullish_trend)
            /\ HasLine(m, WatchLine) <=> (is_bullish_price /\ ~is_bullish_trend)
\* a sent message that opens with the WATCH line, the title on line 2
C4_Witness ==
    /\ pc = "done"
    /\ sink[1][1] = WatchLine
    /\ StartsWith(sink[1][2], ":bar_chart:")
    /\ is_bullish_price /\ ~is_bullish_trend

(* C5: every composed bulletin ends with the stock section holding the      *)
(* text get_tw_stocks_status returned, unchanged, whatever the quote and    *)
(* the trend were; without a quote it carries the read-failed headline,     *)
(* and it carries the trend section whenever a trend was obtained.          *)
C5_SectionIndependence ==
    pc \in {"signal", "done"} =>
        LET n == Len(message)
            k == Len(table)
        IN  /\ k = 2 + Len(STOCK_LIST)
            /\ n >= k + 3
            /\ SubSeq(message, n - k, n - 1) = table
            /\ message[n - k - 2] = StocksHeaderLine
            /\ nickel_data = None <=> HasLine(message, ReadFailedLine)
            /\ market_trend # None <=> HasLine(message, TrendHeaderLine)
            /\ market_trend # None =>
                  HasLine(message, "> Status: **" \o market_trend.status \o "**")
            /\ pc = "done" => sink = <<message>>
\* no quote, a trend, and both the trend section and the table are sent
C5_Witness ==
    /\ pc = "done"
    /\ nickel_data = None
    /\ market_trend # None
    /\ HasLine(sink[1], ReadFailedLine)
    /\ HasLine(sink[1], TrendHeaderLine)
    /\ HasLine(sink[1], table[3])

(* C6: get_tw_stocks_status returns the header row, the separator row and   *)
(* then exactly one row per basket stock in basket order: the read-error    *)
(* placeholder for a stock whose retrieval raised, the no-data placeholder  *)
(* for a stock with no observation, and the normal row for every other      *)
(* stock, whatever the other stocks did.                                    *)
C6_PerAssetIsolation ==
    pc \in {"signal", "done"} =>
        /\ Len(table) = 2 + Len(STOCK_LIST)
        /\ table[1] = TableHeader
        /\ table[2] = TableSeparator
        /\ \A i \in 1..Len(STOCK_LIST) :
              LET id == STOCK_LIST[i].id
                  r == ResultOf(id)
                  line == table[i + 2]
              IN  IF r = "error" THEN line = id \o " read error"
                  ELSE IF r = "rows0" THEN line = id \o " no data"
                  ELSE /\ StartsWith(line, PadRight(Remove(id, ".TW"), 5) \o " "
                                              \o STOCK_LIST[i].name \o " ")
                       /\ EndsWith(line, "  " \o STOCK_LIST[i].tag)
                       /\ ~EndsWith(line, " read error")
                       /\ ~EndsWith(line, " no data")
\* only the third stock fails: one placeholder row, in third place, and four
\* normal rows
C6_Witness ==
    /\ pc = "done"
    /\ \A i \in 1..Len(STOCK_LIST) :
          ResultOf(STOCK_LIST[i].id) = IF i = 3 THEN "error" ELSE "rows2"
    /\ table[5] = "1605.TW read error"
    /\ Cardinality({i \in 3..Len(table) : EndsWith(table[i], " read error")}) = 1
    /\ EndsWith(table[7], "  MLTL")

(* C7: every run hands exactly one composed message to the sink, after the  *)
(* quote, the trend and all stock retrievals; a failed delivery is logged   *)
(* and not retried, and the run completes.  Refuted by the run of C1, which *)
(* ends at line 169 with nothing handed to the sink.                        *)
C7_Delivery ==
    /\ Len(sink) <= 1 /\ posts <= 1
    /\ Len(sink) = 1 => [i \in DOMAIN fetched |-> fetched[i].src] = AllSources
    /\ Ended => pc = "done" /\ Len(sink) = 1

ChangeLineWith(icon, pct) == "> Change: '" \o icon \o " " \o FloatStr(pct) \o "%'"
ClaimedBand(pct) == IF pct > 200 THEN "surge"
                    ELSE IF pct > 100 THEN "strengthening"
                    ELSE IF pct < -100 THEN "weakening"
                    ELSE "flat"
(* C8 as stated: the icon of the headline tells the four bands apart: two   *)
(* changes get the same icon exactly when they lie in the same band of      *)
(* > 2.0, > 1.0, < -1.0, else.                                              *)
C8_IconAsStated ==
    (pc = "done" /\ nickel_data # None) =>
        \A p \in NickelChanges :
            (ClaimedBand(p) = ClaimedBand(nickel_data.change_pct))
                <=> HasLine(sink[1], ChangeLineWith(PctSign(p), nickel_data.change_pct))
(* C8 amended: the icon of the headline is chosen by the sign of the change *)
(* alone: the up triangle when the change is above 0, the down triangle     *)
(* otherwise, exactly 0 included; there are two icons and no thresholds.    *)
C8_Icon ==
    (pc = "done" /\ nickel_data # None) =>
        LET c == nickel_data.change_pct
        IN  /\ HasLine(sink[1], ChangeLineWith(":small_red_triangle:", c)) <=> c > 0
            /\ HasLine(sink[1], ChangeLineWith(":small_red_triangle_down:", c)) <=> c <= 0
\* a change of exactly 0 is sent with the down triangle
C8_Witness ==
    /\ pc = "done"
    /\ nickel_data # None /\ nickel_data.change_pct = 0
    /\ HasLine(sink[1], "> Change: ':small_red_triangle_down: 0.0%'")

StockFailed(r) == r \in {"error", "rows0"}
TotalLoss ==
    /\ nickel_data = None
    /\ market_trend = None
    /\ \A id \in StockIds : StockFailed(ResultOf(id))
\* the layout of the normal bulletin: the title, then the stock section
IsNormalBulletin(m) ==
    /\ \E i \in DOMAIN m : EndsWith(m[i], " **Nickel Strategy War Room** ("
                                              \o Strftime(clock) \o ")")
    /\ HasLine(m, StocksHeaderLine)
    /\ m[Len(m)] = FenceClose
Compose(nickel, trend, bp, bt, text, date) ==
    Escalate(MessageHead(nickel, trend, bp, bt, date) \o StockSection(text), bp, bt)
(* C10 as stated: the message is determined by the quote, the trend, the    *)
(* flags and the table text, its only date being the quote's as-of date.    *)
C10_DeterminismAsStated ==
    (pc = "done" /\ nickel_data # None) =>
        sink[1] = Compose(nickel_data, market_trend, is_bullish_price,
                          is_bullish_trend, table, nickel_data.date)
(* C10 amended: the message is determined by the quote, the trend, the      *)
(* flags, the table text and the date read from the clock when the title    *)
(* is composed; that reading is the only date in the message, and the       *)
(* quote's as-of date is not rendered.                                      *)
C10_Determinism ==
    pc = "done" =>
        /\ sink[1] = Compose(nickel_data, market_trend, is_bullish_price,
                             is_bullish_trend, table, Strftime(clock))
        /\ (nickel_data # None /\ nickel_data.date # Strftime(clock)) =>
              \A i \in DOMAIN sink[1] : ~Contains(sink[1][i], nickel_data.date)
\* the quote is stamped with day 1 and the title carries day 2
C10_Witness ==
    /\ pc = "done"
    /\ nickel_data # None /\ nickel_data.date = Strftime(1)
    /\ clock = 2
    /\ \E i \in 1..2 : EndsWith(sink[1][i], "(" \o Strftime(2) \o ")")

====
